---- MODULE Spec2Model ----
(***************************************************************************)
(* Model of the domain availability checker (multi-session scraper):       *)
(* run() reads the domain list and the result store, partitions the        *)
(* unresolved domains over up to three processDomainBatch workers, and     *)
(* every worker re-reads and rewrites the shared result file through       *)
(* safelyReadResultsFile / safelyWriteResultsFile.                         *)
(*                                                                         *)
(* JavaScript runs one continuation at a time: the variable cur holds the  *)
(* process that is inside a synchronous segment; it is released at every   *)
(* await. File-system calls are separate steps so that a crash can fall    *)
(* between any two of them.                                                *)
(***************************************************************************)
EXTENDS Integers, Sequences, FiniteSets, TLC

\* ---------------------------------------------------------------- bounds
MaxInput == 4          \* longest de-duplicated input list
MaxFaults == 1         \* I/O or remote failures injected in one run
MaxInputDeep == 1      \* longest input list tried under many failures
MaxFaultsDeep == 6     \* failures injected in a run over such a short list
MaxFaultsBad == 9      \* failures injected in a run over a store of non-records
MaxStoreInput == 2     \* longest input list tried against every initial store
MaxInputRace == 2      \* input list of two workers racing under failures
MaxFaultsRace == 3     \* failures injected in such a run
MaxPlanInput == 7      \* longest input list of the planning-only runs
MaxPlanLines == 3      \* longest input of arbitrary lines in those runs

\* ------------------------------------------------------ program constants
MaxSessions == 3       \* Math.min(3, domainsToCheck.length)
MaxRetries == 3        \* maxRetries = 3 of load and save

AllNames == <<"a.com", "b.com", "c.com", "d.com", "e.com", "f.com", "g.com", "h.com", "i.com", "j.com">>
Statuses == {"available", "unavailable", "unknown", "error"}

\* What the registrar page shows for a domain (the remote site's answer).
PageSays(d) == IF d \in {"a.com", "c.com", "e.com"} THEN "available" ELSE "unavailable"

Procs == 0..MaxSessions      \* 0 is run(), 1..3 are the session workers
Workers == 1..MaxSessions
None == -1

\* ------------------------------------------------------------- documents
\* A file is absent, or holds empty text, unparsable text, the JSON text
\* [null] (an array whose element is not a record), or a JSON array of
\* records.
Absent == [k |-> "absent", recs |-> <<>>]
EmptyText == [k |-> "empty", recs |-> <<>>]
Garbage == [k |-> "garbage", recs |-> <<>>]
NullArray == [k |-> "nulls", recs |-> <<>>]

Stringify(data) == [k |-> "json", recs |-> data]

\* JSON.parse: the value, or a SyntaxError for text that is not JSON.
ParseThrows(doc) == doc.k \in {"garbage", "empty"}
Parse(doc) == [bad |-> doc.k = "nulls", recs |-> doc.recs]

EmptyVal == [bad |-> FALSE, recs |-> <<>>]

Entry(d, s) == [domain |-> d, status |-> s]

RECURSIVE SeqFilterNonError(_)
SeqFilterNonError(s) ==
    IF s = <<>> THEN <<>>
    ELSE IF Head(s).status # "error"
         THEN <<Head(s)>> \o SeqFilterNonError(Tail(s))
         ELSE SeqFilterNonError(Tail(s))

DomainsOf(recs) == {recs[i].domain : i \in 1..Len(recs)}

\* ------------------------------------------------------------ input file
\* A line is a domain name with optional surrounding whitespace, or blank.
Line(t, p) == [text |-> t, pad |-> p]
Trim(l) == l.text

RECURSIVE TrimNonBlank(_)
TrimNonBlank(ls) ==
    IF ls = <<>> THEN <<>>
    ELSE IF Trim(Head(ls)) # ""
         THEN <<Trim(Head(ls))>> \o TrimNonBlank(Tail(ls))
         ELSE TrimNonBlank(Tail(ls))

RECURSIVE Dedup(_, _)
Dedup(s, seen) ==
    IF s = <<>> THEN <<>>
    ELSE IF Head(s) \in seen
         THEN Dedup(Tail(s), seen)
         ELSE <<Head(s)>> \o Dedup(Tail(s), seen \cup {Head(s)})

UniqueDomains(ls) == Dedup(TrimNonBlank(ls), {})

Min(a, b) == IF a < b THEN a ELSE b

\* Variant: always the configured number of sessions.
NumberOfSessions_Max(todo) == MaxSessions

\* Math.min(3, domainsToCheck.length)
NumberOfSessions(todo) == Min(MaxSessions, Len(todo))

\* Variant: contiguous blocks of two instead of round-robin.
SessionIndex_Blocks(index, k) == (index \div 2) % k

\* const sessionIndex = index % numberOfSessions
SessionIndex(index, k) == index % k

\* The domains pushed to domainBatches[s], in forEach order (index = i - 1).
RECURSIVE BatchOf(_, _, _, _)
BatchOf(todo, k, s, i) ==
    IF i > Len(todo) THEN <<>>
    ELSE IF SessionIndex(i - 1, k) = s
         THEN <<todo[i]>> \o BatchOf(todo, k, s, i + 1)
         ELSE BatchOf(todo, k, s, i + 1)

\* Variant: every session is handed the whole list.
DomainBatches_Shared(todo) ==
    [p \in Workers |-> IF p <= NumberOfSessions(todo) THEN todo ELSE <<>>]

\* domainBatches[sessionIndex], sessionIndex = index % numberOfSessions
DomainBatches(todo) ==
    [p \in Workers |->
        IF p <= NumberOfSessions(todo)
        THEN BatchOf(todo, NumberOfSessions(todo), p - 1, 1)
        ELSE <<>>]

RECURSIVE SeqFilterNotIn(_, _)
SeqFilterNotIn(s, set) ==
    IF s = <<>> THEN <<>>
    ELSE IF Head(s) \notin set
         THEN <<Head(s)>> \o SeqFilterNotIn(Tail(s), set)
         ELSE SeqFilterNotIn(Tail(s), set)

\* ------------------------------------------------------------- variables
VARIABLES
    domainsFile,       \* input/domains.txt: Absent or [k |-> "lines", lines]
    file,              \* output/domain.json
    tmp,               \* output/domain.json.tmp
    backup,            \* output/domain.json.backup
    quarantine,        \* the domain.json.backup.<timestamp> copies, oldest first
    pc,                \* position of run() and of every worker
    cur,               \* process inside a synchronous segment, or None
    retries,           \* retries of the load or save in progress
    after,             \* where the load or save in progress returns to
    loaded,            \* value returned by the last load
    saved,             \* result of the last save
    waited,            \* setTimeout delays (ms) of the load or save in progress
    before,            \* the target when the save in progress was called
    uniqueDomains, existingResults, validResults, domainsToCheck,   \* locals of run()
    batch, idx, currentResults, checkedDomainsSet, status, stagehand,
    retryCount,        \* retryCount of the checkDomainAvailabilityName call in progress
    probes,            \* probes that call has started, in order, with their delays (ms)
    session,           \* remote session of a worker: none, live, closed, close_failed
    invoked,           \* checker invocations of every worker, in order
    caught,            \* domains whose processing raised in a worker
    workerError,       \* the worker's outer catch (line 391) ran
    budget,            \* failures the environment may inject in this run
    faults,            \* failures the environment may still inject
    crashed,           \* the process was killed
    exitCode,          \* exit status of the process, None while it runs
    store0,            \* the store file when the run started
    domainData         \* the record list of the single-session run()

fsVars == <<domainsFile, file, tmp, backup, quarantine>>
callVars == <<retries, after, loaded, saved, waited, before>>
runVars == <<uniqueDomains, existingResults, validResults, domainsToCheck>>
workerVars == <<batch, idx, currentResults, checkedDomainsSet, status, stagehand, retryCount, probes>>
histVars == <<session, invoked, caught, workerError, budget, store0>>
vars == <<fsVars, pc, cur, callVars, runVars, workerVars, histVars, faults, crashed, exitCode, domainData>>

\* ------------------------------------------------------------ initial states
NoInput == [k |-> "absent", lines |-> <<>>]

Prefix(n) == [i \in 1..n |-> Line(AllNames[i], FALSE)]

\* The lists of n distinct domains, and the example list a, b, (blank), a
\* with a padded repetition.
InputFiles(n) ==
    {NoInput}
    \cup {[k |-> "lines", lines |-> Prefix(m)] : m \in 0..n}
    \cup {[k |-> "lines", lines |-> Prefix(Min(2, n)) \o <<Line("", TRUE), Line("a.com", TRUE)>>]}

StoreOf(s1, s2) ==
    (IF s1 = "none" THEN <<>> ELSE <<Entry("a.com", s1)>>)
    \o (IF s2 = "none" THEN <<>> ELSE <<Entry("b.com", s2)>>)

\* Stores with unique domains, as a previous run leaves them.
InitialStores ==
    {Absent, EmptyText, Garbage, NullArray}
    \cup {Stringify(StoreOf(s1, s2)) : s1 \in {"none", "unavailable", "error"}, s2 \in {"none", "available", "error"}}

\* Long inputs are tried against the stores that leave work to do.
StoresFor(n) ==
    IF n <= MaxStoreInput
    THEN InitialStores
    ELSE {NullArray, Stringify(<<>>), Stringify(StoreOf("unavailable", "none")), Stringify(StoreOf("none", "error"))}

InitWith(inputs, stores, b) ==
    /\ domainsFile \in inputs
    /\ file \in stores \cap StoresFor(Len(UniqueDomains(domainsFile.lines)))
    /\ store0 = file
    /\ tmp = Absent
    /\ backup = Absent
    /\ quarantine = <<>>
    /\ pc = [p \in Procs |-> IF p = 0 THEN "start" ELSE "idle"]
    /\ cur = 0
    /\ retries = [p \in Procs |-> 0]
    /\ after = [p \in Procs |-> "none"]
    /\ loaded = [p \in Procs |-> EmptyVal]
    /\ saved = [p \in Procs |-> FALSE]
    /\ waited = [p \in Procs |-> <<>>]
    /\ before = [p \in Procs |-> Absent]
    /\ uniqueDomains = <<>>
    /\ existingResults = <<>>
    /\ validResults = <<>>
    /\ domainsToCheck = <<>>
    /\ batch = [p \in Workers |-> <<>>]
    /\ idx = [p \in Workers |-> 1]
    /\ currentResults = [p \in Workers |-> <<>>]
    /\ checkedDomainsSet = [p \in Workers |-> {}]
    /\ status = [p \in Workers |-> "none"]
    /\ stagehand = [p \in Workers |-> FALSE]
    /\ retryCount = [p \in Workers |-> 0]
    /\ probes = [p \in Workers |-> <<>>]
    /\ session = [p \in Workers |-> "none"]
    /\ invoked = [p \in Workers |-> <<>>]
    /\ caught = [p \in Workers |-> {}]
    /\ workerError = [p \in Workers |-> FALSE]
    /\ budget = b
    /\ faults = b
    /\ crashed = FALSE
    /\ exitCode = None
    /\ domainData = <<>>

\* The list a.com, b.com, a.com.
ExampleInput ==
    [k |-> "lines", lines |-> <<Line("a.com", FALSE), Line("b.com", FALSE), Line("a.com", FALSE)>>]

\* Long inputs under few failures, short inputs under many, the longest
\* input against a store of non-records under the most, two workers over
\* an empty store under enough failures to exhaust a load or a save, and
\* the example list over an empty store.
Init ==
    \/ InitWith(InputFiles(MaxInput), InitialStores, MaxFaults)
    \/ InitWith(InputFiles(MaxInputDeep), InitialStores, MaxFaultsDeep)
    \/ InitWith({[k |-> "lines", lines |-> Prefix(MaxInput)]}, {NullArray}, MaxFaultsBad)
    \/ InitWith({[k |-> "lines", lines |-> Prefix(MaxInputRace)]}, {Stringify(<<>>)}, MaxFaultsRace)
    \/ InitWith({ExampleInput}, {Stringify(<<>>)}, MaxFaults)

\* --------------------------------------------------------------- helpers
CanRun(p) == ~crashed /\ cur \in {None, p}

\* An injected failure: a throwing fs call or a failing remote call.
CanFail == faults > 0

\* Entering safelyReadResultsFile / safelyWriteResultsFile: the body runs
\* synchronously up to its first await.
CallLoad(p, k) ==
    /\ pc' = [pc EXCEPT ![p] = "load"]
    /\ after' = [after EXCEPT ![p] = k]
    /\ retries' = [retries EXCEPT ![p] = 0]
    /\ waited' = [waited EXCEPT ![p] = <<>>]
    /\ before' = before
    /\ cur' = p

CallSave(p, k) ==
    /\ pc' = [pc EXCEPT ![p] = "save"]
    /\ after' = [after EXCEPT ![p] = k]
    /\ retries' = [retries EXCEPT ![p] = 0]
    /\ waited' = [waited EXCEPT ![p] = <<>>]
    /\ before' = [before EXCEPT ![p] = file]
    /\ cur' = p

\* A step inside a synchronous segment of p that moves to position k.
Goto(p, k) ==
    /\ pc' = [pc EXCEPT ![p] = k]
    /\ cur' = p

\* ------------------------------------------------ safelyReadResultsFile
\* return <value>: the function ran to its return without suspending
\* (the fs calls are synchronous), so the caller's await resumes as a
\* microtask of the same job, before any other process's continuation.
LoadReturn(p, v) ==
    /\ loaded' = [loaded EXCEPT ![p] = v]
    /\ pc' = [pc EXCEPT ![p] = after[p]]
    /\ after' = [after EXCEPT ![p] = "none"]
    /\ retries' = [retries EXCEPT ![p] = 0]
    /\ waited' = [waited EXCEPT ![p] = <<>>]
    /\ cur' = p

\* Variant: one more attempt than maxRetries.
RetryAgain_OneMore(r) == r < MaxRetries + 1

\* while (retries < maxRetries)
RetryAgain(r) == r < MaxRetries

\* setTimeout(resolve, 1000) in the catch of the load
LoadDelay(r) == 1000

\* Variant: the catch does not count the failed attempt.
LoadCatch_Uncounted(p) ==
    /\ CanFail
    /\ faults' = faults - 1
    /\ pc' = [pc EXCEPT ![p] = "load"]
    /\ cur' = None
    /\ UNCHANGED <<retries, waited, loaded, after>>

\* catch (error): retries++, then the sleep, whose await releases the
\* thread; the loop test comes after it.
LoadCatch(p) ==
    /\ CanFail
    /\ faults' = faults - 1
    /\ retries' = [retries EXCEPT ![p] = @ + 1]
    /\ waited' = [waited EXCEPT ![p] = Append(@, LoadDelay(retries[p] + 1))]
    /\ pc' = [pc EXCEPT ![p] = "load"]
    /\ cur' = None
    /\ UNCHANGED <<loaded, after>>

\* The loop test and one attempt up to its first file mutation:
\* existsSync, readFileSync, the empty test and JSON.parse. When the loop
\* test fails the function returns [].
LoadAttempt(p) ==
    /\ pc[p] = "load"
    /\ CanRun(p)
    /\ UNCHANGED <<fsVars, saved, before, runVars, workerVars, histVars, domainData, crashed, exitCode>>
    /\ IF ~RetryAgain(retries[p])
       THEN /\ LoadReturn(p, EmptyVal)
            /\ UNCHANGED faults
       ELSE IF file.k = "absent"
       THEN /\ Goto(p, "load_open")
            /\ UNCHANGED <<retries, after, loaded, waited, faults>>
       ELSE \/ LoadCatch(p)                         \* readFileSync throws
            \/ /\ UNCHANGED faults
               /\ IF file.k = "empty"
                  THEN LoadReturn(p, EmptyVal)
                  ELSE IF ParseThrows(file)
                       THEN /\ Goto(p, "load_quarantine")
                            /\ UNCHANGED <<retries, after, loaded, waited>>
                       ELSE LoadReturn(p, Parse(file))

\* Variant: no copy of the corrupt file is kept.
QuarantineCopy_Skip(copies, doc) == copies

\* copyFileSync(filePath, `${filePath}.backup.${Date.now()}`): one more
\* timestamped copy, holding the text of the file.
QuarantineCopy(copies, doc) == Append(copies, doc)

LoadQuarantine(p) ==
    /\ pc[p] = "load_quarantine"
    /\ CanRun(p)
    /\ UNCHANGED <<domainsFile, file, tmp, backup, saved, before, runVars, workerVars, histVars, domainData, crashed, exitCode>>
    /\ \/ LoadCatch(p) /\ UNCHANGED quarantine
       \/ /\ quarantine' = QuarantineCopy(quarantine, file)
          /\ Goto(p, "load_reset_open")
          /\ UNCHANGED <<retries, after, loaded, waited, faults>>

\* writeFileSync(filePath, "[]"), first half: the target is opened and
\* truncated. Line 223 creates the missing file (load_open), line 250
\* resets the corrupt one (load_reset_open).
LoadOpen(p) ==
    /\ pc[p] \in {"load_open", "load_reset_open"}
    /\ CanRun(p)
    /\ UNCHANGED <<domainsFile, tmp, backup, quarantine, saved, before, runVars, workerVars, histVars, domainData, crashed, exitCode>>
    /\ \/ LoadCatch(p) /\ UNCHANGED file
       \/ /\ file' = EmptyText
          /\ Goto(p, IF pc[p] = "load_open" THEN "load_write" ELSE "load_reset_write")
          /\ UNCHANGED <<retries, after, loaded, waited, faults>>

\* writeFileSync(filePath, "[]"), second half: the text is written.
LoadWrite(p) ==
    /\ pc[p] \in {"load_write", "load_reset_write"}
    /\ CanRun(p)
    /\ UNCHANGED <<domainsFile, tmp, backup, quarantine, saved, before, runVars, workerVars, histVars, domainData, crashed, exitCode>>
    /\ \/ LoadCatch(p) /\ UNCHANGED file
       \/ /\ file' = Stringify(<<>>)
          /\ LoadReturn(p, EmptyVal)
          /\ UNCHANGED faults

\* ----------------------------------------------- safelyWriteResultsFile
\* The data argument: run() passes validResults, a worker currentResults.
SaveData(p) == IF p = 0 THEN validResults ELSE currentResults[p]

SaveReturn(p, ok) ==
    /\ saved' = [saved EXCEPT ![p] = ok]
    /\ pc' = [pc EXCEPT ![p] = after[p]]
    /\ after' = [after EXCEPT ![p] = "none"]
    /\ retries' = [retries EXCEPT ![p] = 0]
    /\ waited' = [waited EXCEPT ![p] = <<>>]
    /\ before' = [before EXCEPT ![p] = Absent]
    /\ cur' = p

\* Variant: the same delay after every failed attempt.
SaveDelay_Fixed(r) == 1000

\* setTimeout(resolve, 1000 * retries) in the catch of the save
SaveDelay(r) == 1000 * r

\* catch (error): retries++, then the sleep, whose await releases the
\* thread; the loop test comes after it.
SaveCatch(p) ==
    /\ CanFail
    /\ faults' = faults - 1
    /\ retries' = [retries EXCEPT ![p] = @ + 1]
    /\ waited' = [waited EXCEPT ![p] = Append(@, SaveDelay(retries[p] + 1))]
    /\ pc' = [pc EXCEPT ![p] = "save"]
    /\ cur' = None
    /\ UNCHANGED <<saved, after, before>>

\* Variant: the existing file is never copied.
NeedsBackup_Never(doc) == FALSE

\* if (fs.existsSync(filePath))
NeedsBackup(doc) == doc.k # "absent"

\* The loop test, then
\* if (fs.existsSync(filePath)) fs.copyFileSync(filePath, backupPath).
\* When the loop test fails the function returns false.
SaveBackup(p) ==
    /\ pc[p] = "save"
    /\ CanRun(p)
    /\ UNCHANGED <<domainsFile, file, tmp, quarantine, loaded, runVars, workerVars, histVars, domainData, crashed, exitCode>>
    /\ IF ~RetryAgain(retries[p])
       THEN /\ SaveReturn(p, FALSE)
            /\ UNCHANGED <<backup, faults>>
       ELSE IF ~NeedsBackup(file)
       THEN /\ Goto(p, "save_open")
            /\ UNCHANGED <<backup, retries, after, saved, waited, before, faults>>
       ELSE \/ SaveCatch(p) /\ UNCHANGED backup
            \/ /\ backup' = file
               /\ Goto(p, "save_open")
               /\ UNCHANGED <<retries, after, saved, waited, before, faults>>

\* writeFileSync(tempFilePath, ...), first half: open and truncate.
SaveOpen(p) ==
    /\ pc[p] = "save_open"
    /\ CanRun(p)
    /\ UNCHANGED <<domainsFile, file, backup, quarantine, loaded, runVars, workerVars, histVars, domainData, crashed, exitCode>>
    /\ \/ SaveCatch(p) /\ UNCHANGED tmp
       \/ /\ tmp' = EmptyText
          /\ Goto(p, "save_write")
          /\ UNCHANGED <<retries, after, saved, waited, before, faults>>

\* Variant: the write is awaited, so that other processes run between
\* the write and the rename.
ThenRename_Awaited(p) ==
    /\ pc' = [pc EXCEPT ![p] = "save_rename"]
    /\ cur' = None

\* Lines 292-296: renameSync follows writeFileSync in the same synchronous
\* stretch of the attempt.
ThenRename(p) == Goto(p, "save_rename")

\* writeFileSync(tempFilePath, JSON.stringify(data, null, 4)), second half.
SaveWrite(p) ==
    /\ pc[p] = "save_write"
    /\ CanRun(p)
    /\ UNCHANGED <<domainsFile, file, backup, quarantine, loaded, runVars, workerVars, histVars, domainData, crashed, exitCode>>
    /\ \/ SaveCatch(p) /\ UNCHANGED tmp
       \/ /\ tmp' = Stringify(SaveData(p))
          /\ ThenRename(p)
          /\ UNCHANGED <<retries, after, saved, waited, before, faults>>

\* fs.renameSync(tempFilePath, filePath); return true
SaveRename(p) ==
    /\ pc[p] = "save_rename"
    /\ CanRun(p)
    /\ UNCHANGED <<domainsFile, backup, quarantine, loaded, runVars, workerVars, histVars, domainData, crashed, exitCode>>
    /\ \/ SaveCatch(p) /\ UNCHANGED <<file, tmp>>
       \/ /\ file' = tmp
          /\ tmp' = Absent
          /\ SaveReturn(p, TRUE)
          /\ UNCHANGED faults

\* ------------------------------------------------------------------ run()
\* Variant: the error records are not filtered out.
ValidResultsOf_KeepAll(existing) == existing

\* existingResults.filter(entry => entry.status !== 'error')
ValidResultsOf(existing) == SeqFilterNonError(existing)

\* Variant: the checked domains are not filtered out.
DomainsToCheckOf_All(unique, valid) == unique

\* uniqueDomains.filter(domain => !checkedDomainsSet.has(domain))
DomainsToCheckOf(unique, valid) == SeqFilterNotIn(unique, DomainsOf(valid))

\* validResults.length < existingResults.length
AnyFiltered(valid, existing) == Len(valid) < Len(existing)

\* run().catch(error => { ...; process.exit(1) }): status 1 when the
\* promise of run() rejects, else the process ends with status 0.
ExitStatus(rejected) == IF rejected THEN 1 ELSE 0

\* run() returns, or its catch (line 506) has logged an error: either way
\* its promise resolves and the process ends.
RunReturns ==
    /\ pc' = [pc EXCEPT ![0] = "done"]
    /\ cur' = None
    /\ exitCode' = ExitStatus(FALSE)

\* Lines 408-453: make the directories, read and de-duplicate the input,
\* then load the store. A missing or empty input makes run() return; a
\* throwing file-system call lands in run()'s catch.
Run_Start ==
    /\ pc[0] = "start"
    /\ CanRun(0)
    /\ UNCHANGED <<fsVars, loaded, saved, existingResults, validResults, domainsToCheck, workerVars, histVars, domainData, crashed>>
    /\ \/ /\ CanFail
          /\ faults' = faults - 1
          /\ RunReturns
          /\ UNCHANGED <<uniqueDomains, retries, after, waited, before>>
       \/ /\ UNCHANGED faults
          /\ IF domainsFile.k = "absent" \/ TrimNonBlank(domainsFile.lines) = <<>>
             THEN /\ RunReturns
                  /\ UNCHANGED <<uniqueDomains, retries, after, waited, before>>
             ELSE /\ uniqueDomains' = UniqueDomains(domainsFile.lines)
                  /\ CallLoad(0, "run_loaded")
                  /\ UNCHANGED exitCode

\* Lines 454-465: drop the error records and, if any was dropped, save the
\* filtered list. A store whose elements are not records makes the filter
\* throw, which run()'s catch logs.
Run_Loaded ==
    /\ pc[0] = "run_loaded"
    /\ CanRun(0)
    /\ UNCHANGED <<fsVars, saved, uniqueDomains, domainsToCheck, workerVars, histVars, domainData, faults, crashed>>
    /\ loaded' = [loaded EXCEPT ![0] = EmptyVal]
    /\ IF loaded[0].bad
       THEN /\ RunReturns
            /\ UNCHANGED <<existingResults, validResults, retries, after, waited, before>>
       ELSE /\ existingResults' = loaded[0].recs
            /\ UNCHANGED exitCode
            /\ validResults' = ValidResultsOf(loaded[0].recs)
            /\ IF AnyFiltered(validResults', loaded[0].recs)
               THEN CallSave(0, "run_plan")
               ELSE /\ Goto(0, "run_plan")
                    /\ UNCHANGED <<retries, after, waited, before>>

\* Lines 467-502: compute the unresolved domains, split them round-robin
\* and start one processDomainBatch per batch; each runs up to its first
\* await (the session request).
Run_Plan ==
    /\ pc[0] = "run_plan"
    /\ CanRun(0)
    /\ UNCHANGED <<fsVars, retries, after, waited, before, loaded, uniqueDomains, existingResults, validResults, idx, currentResults, checkedDomainsSet, status, retryCount, probes, stagehand, histVars, domainData, faults, crashed>>
    /\ saved' = [saved EXCEPT ![0] = FALSE]
    /\ domainsToCheck' = DomainsToCheckOf(uniqueDomains, validResults)
    /\ IF domainsToCheck' = <<>>
       THEN /\ RunReturns
            /\ UNCHANGED batch
       ELSE /\ batch' = DomainBatches(domainsToCheck')
            /\ cur' = None
            /\ UNCHANGED exitCode
            /\ pc' = [p \in Procs |->
                        IF p = 0 THEN "join"
                        ELSE IF p <= NumberOfSessions(domainsToCheck') THEN "w_create"
                        ELSE pc[p]]

WorkerFinished(p) == pc[p] \in {"idle", "w_done"}

\* Variant: a worker whose outer catch ran rejects, and Promise.all with it.
AllSettled_FailFast ==
    \/ \A p \in Workers : WorkerFinished(p)
    \/ \E p \in Workers : pc[p] = "w_done" /\ workerError[p]

\* Variant: Promise.race, the first worker to finish ends the wait.
AllSettled_First == \E p \in Workers : pc[p] = "w_done"

\* await Promise.all(...): every processDomainBatch promise has settled.
AllSettled == \A p \in Workers : WorkerFinished(p)

\* Lines 498-509: the wait is over, run() logs and returns.
Run_Join ==
    /\ pc[0] = "join"
    /\ CanRun(0)
    /\ AllSettled
    /\ RunReturns
    /\ UNCHANGED <<fsVars, callVars, runVars, workerVars, histVars, domainData, faults, crashed>>

\* ----------------------------------------------------- processDomainBatch
\* Variant: the second presence test is missing.
ShouldAppend_Always(set, d) == TRUE

\* if (!checkedDomainsSet.has(domain)) before the append and save
ShouldAppend(set, d) == d \notin set

\* Variant: no domain is skipped.
ShouldSkip_Never(set, d) == FALSE

\* if (checkedDomainsSet.has(domain)) continue
ShouldSkip(set, d) == d \in set

\* The position after the loop or after a session error: finally closes
\* the session if stagehand was assigned, else the function returns.
FinallyPc(hasStagehand) == IF hasStagehand THEN "w_close" ELSE "w_done"

\* Variant: a failed acquisition is handled like a failed domain, by the
\* catch inside the loop.
AcquireCatch_PerDomain(p) ==
    /\ CallLoad(p, "w_errloaded")
    /\ UNCHANGED <<stagehand, workerError>>

\* Lines 323 and 391-402: initializeBrowserbaseSession rejects inside the
\* outer try, before the loop: the catch logs, the finally finds
\* stagehand null and processDomainBatch returns.
AcquireCatch(p) ==
    /\ pc' = [pc EXCEPT ![p] = FinallyPc(stagehand[p])]
    /\ workerError' = [workerError EXCEPT ![p] = TRUE]
    /\ cur' = None
    /\ UNCHANGED <<stagehand, retries, after, waited, before>>

\* browserbase.sessions.create(...) settles; on success stagehand.init()
\* is requested, on failure processDomainBatch's catch and finally run.
W_Create(p) ==
    /\ pc[p] = "w_create"
    /\ CanRun(p)
    /\ UNCHANGED <<fsVars, loaded, saved, runVars, batch, idx, currentResults, checkedDomainsSet, status, retryCount, probes, invoked, caught, budget, store0, domainData, crashed, exitCode>>
    /\ \/ /\ CanFail
          /\ faults' = faults - 1
          /\ AcquireCatch(p)
          /\ UNCHANGED session
       \/ /\ session' = [session EXCEPT ![p] = "live"]
          /\ pc' = [pc EXCEPT ![p] = "w_init"]
          /\ cur' = None
          /\ UNCHANGED <<faults, workerError, stagehand, retries, after, waited, before>>

\* stagehand.init() settles; on success the baseline load starts. On
\* failure initializeBrowserbaseSession rejects and stagehand stays null.
W_Init(p) ==
    /\ pc[p] = "w_init"
    /\ CanRun(p)
    /\ UNCHANGED <<fsVars, loaded, saved, runVars, batch, idx, currentResults, checkedDomainsSet, status, retryCount, probes, session, invoked, caught, budget, store0, domainData, crashed, exitCode>>
    /\ \/ /\ CanFail
          /\ faults' = faults - 1
          /\ AcquireCatch(p)
       \/ /\ stagehand' = [stagehand EXCEPT ![p] = TRUE]
          /\ CallLoad(p, "w_baseline")
          /\ UNCHANGED <<faults, workerError>>

\* Lines 327-330: the baseline snapshot. currentResults.map throws on
\* elements that are not records; that leaves the outer try and is
\* caught as a session error.
W_Baseline(p) ==
    /\ pc[p] = "w_baseline"
    /\ CanRun(p)
    /\ UNCHANGED <<fsVars, retries, after, waited, before, saved, runVars, batch, status, retryCount, probes, stagehand, session, invoked, caught, budget, store0, domainData, faults, crashed, exitCode>>
    /\ loaded' = [loaded EXCEPT ![p] = EmptyVal]
    /\ IF loaded[p].bad
       THEN /\ pc' = [pc EXCEPT ![p] = FinallyPc(stagehand[p])]
            /\ workerError' = [workerError EXCEPT ![p] = TRUE]
            /\ cur' = None
            /\ UNCHANGED <<idx, currentResults, checkedDomainsSet>>
       ELSE /\ currentResults' = [currentResults EXCEPT ![p] = loaded[p].recs]
            /\ checkedDomainsSet' = [checkedDomainsSet EXCEPT ![p] = DomainsOf(loaded[p].recs)]
            /\ idx' = [idx EXCEPT ![p] = 1]
            /\ Goto(p, "w_loop")
            /\ UNCHANGED workerError

\* Variant: the loop variable is always the last domain of the batch.
Domain_Last(p) == batch[p][Len(batch[p])]

\* for (const domain of domains): the domain a worker is processing.
Domain(p) == batch[p][idx[p]]

\* const delayMs = 5000 * retryCount, waited when retryCount > 0
ProbeDelay(r) == 5000 * r

Primary(r) == [kind |-> "primary", delay |-> ProbeDelay(r)]
Fallback == [kind |-> "fallback", delay |-> 0]

\* Lines 333-342: the head of the for loop: leave the loop (finally), skip
\* a domain of the local set, or invoke the checker, whose first probe
\* starts with retryCount = 0.
W_Loop(p) ==
    /\ pc[p] = "w_loop"
    /\ CanRun(p)
    /\ UNCHANGED <<fsVars, callVars, runVars, batch, status, stagehand, session, caught, workerError, budget, store0, domainData, faults, crashed, exitCode>>
    /\ IF idx[p] > Len(batch[p])
       THEN /\ pc' = [pc EXCEPT ![p] = FinallyPc(stagehand[p])]
            /\ cur' = None
            /\ currentResults' = [currentResults EXCEPT ![p] = <<>>]
            /\ checkedDomainsSet' = [checkedDomainsSet EXCEPT ![p] = {}]
            /\ UNCHANGED <<idx, invoked, retryCount, probes>>
       ELSE IF ShouldSkip(checkedDomainsSet[p], Domain(p))
            THEN /\ idx' = [idx EXCEPT ![p] = @ + 1]
                 /\ cur' = p
                 /\ UNCHANGED <<pc, invoked, currentResults, checkedDomainsSet, retryCount, probes>>
            ELSE /\ invoked' = [invoked EXCEPT ![p] = Append(@, Domain(p))]
                 /\ retryCount' = [retryCount EXCEPT ![p] = 0]
                 /\ probes' = [probes EXCEPT ![p] = <<Primary(0)>>]
                 /\ pc' = [pc EXCEPT ![p] = "w_check"]
                 /\ cur' = None
                 /\ UNCHANGED <<idx, currentResults, checkedDomainsSet>>

\* Variant: the fallback only after one more failed primary probe.
UseFallback_Late(r) == r >= 3

\* if (retryCount >= 2) in the catch of the primary probe
UseFallback(r) == r >= 2

\* What the fallback finds in the page content: the phrases of the
\* domain's state, or none of them.
FallbackFinds(d) == {PageSays(d), "unknown"}

\* Variant: the exhausted checker answers unknown.
ExhaustedStatus_Unknown(d) == "unknown"

\* The outer catch of checkDomainAvailabilityName (line 188): return 'error'
ExhaustedStatus(d) == "error"

\* checkDomainAvailability resolves with a status; the worker then
\* re-loads the store (lines 342-352).
CheckReturn(p, s) ==
    /\ status' = [status EXCEPT ![p] = s]
    /\ retryCount' = [retryCount EXCEPT ![p] = 0]
    /\ probes' = [probes EXCEPT ![p] = <<>>]
    /\ CallLoad(p, "w_reloaded")

\* Lines 86-135 and 137-183: one primary probe (its delay, navigation and
\* extract) settles. It answers what the page shows; when it throws, the
\* call recurses with retryCount + 1, or starts the fallback once
\* retryCount >= 2.
W_Check(p) ==
    /\ pc[p] = "w_check"
    /\ CanRun(p)
    /\ UNCHANGED <<fsVars, loaded, saved, runVars, batch, idx, currentResults, checkedDomainsSet, stagehand, histVars, domainData, crashed, exitCode>>
    /\ \/ /\ CheckReturn(p, PageSays(Domain(p)))
          /\ UNCHANGED faults
       \/ /\ CanFail
          /\ faults' = faults - 1
          /\ cur' = None
          /\ UNCHANGED <<status, retries, after, waited, before>>
          /\ IF UseFallback(retryCount[p])
             THEN /\ pc' = [pc EXCEPT ![p] = "w_fallback"]
                  /\ probes' = [probes EXCEPT ![p] = Append(@, Fallback)]
                  /\ UNCHANGED retryCount
             ELSE /\ retryCount' = [retryCount EXCEPT ![p] = @ + 1]
                  /\ probes' = [probes EXCEPT ![p] = Append(@, Primary(retryCount[p] + 1))]
                  /\ UNCHANGED pc

\* Lines 141-171 and 188-201: the fallback (homepage, act, page content)
\* settles. When it throws, the outer catch answers error.
W_Fallback(p) ==
    /\ pc[p] = "w_fallback"
    /\ CanRun(p)
    /\ UNCHANGED <<fsVars, loaded, saved, runVars, batch, idx, currentResults, checkedDomainsSet, stagehand, histVars, domainData, crashed, exitCode>>
    /\ \/ /\ \E s \in FallbackFinds(Domain(p)) : CheckReturn(p, s)
          /\ UNCHANGED faults
       \/ /\ CanFail
          /\ faults' = faults - 1
          /\ CheckReturn(p, ExhaustedStatus(Domain(p)))

\* The end of an iteration without an await: back to the loop head.
NextDomain(p) ==
    /\ idx' = [idx EXCEPT ![p] = @ + 1]
    /\ status' = [status EXCEPT ![p] = "none"]
    /\ UNCHANGED <<retryCount, probes>>
    /\ Goto(p, "w_loop")

\* Variant: the inner catch rethrows, which ends the partition.
Swallow_Rethrow(p) ==
    /\ pc' = [pc EXCEPT ![p] = FinallyPc(stagehand[p])]
    /\ cur' = None
    /\ UNCHANGED <<idx, status, retryCount, probes>>

\* catch (saveError): logged; the for loop goes on with the next domain.
Swallow(p) == NextDomain(p)

\* Variant: the entry does not carry the status the checker returned.
NewEntry_Unknown(d, s) == Entry(d, "unknown")

\* const newEntry: DomainEntry = { domain, status }
NewEntry(d, s) == Entry(d, s)

\* Lines 351-367: adopt the re-loaded store; append and save the new entry
\* unless the domain is present. The map over elements that are not
\* records throws into the domain's catch, which re-loads (line 373).
W_Reloaded(p) ==
    /\ pc[p] = "w_reloaded"
    /\ CanRun(p)
    /\ UNCHANGED <<fsVars, saved, runVars, batch, stagehand, session, invoked, workerError, budget, store0, domainData, faults, crashed, exitCode>>
    /\ loaded' = [loaded EXCEPT ![p] = EmptyVal]
    /\ IF loaded[p].bad
       THEN /\ caught' = [caught EXCEPT ![p] = @ \cup {Domain(p)}]
            /\ CallLoad(p, "w_errloaded")
            /\ UNCHANGED <<idx, status, retryCount, probes, currentResults, checkedDomainsSet>>
       ELSE /\ checkedDomainsSet' = [checkedDomainsSet EXCEPT ![p] = DomainsOf(loaded[p].recs)]
            /\ UNCHANGED caught
            /\ IF ShouldAppend(DomainsOf(loaded[p].recs), Domain(p))
               THEN /\ currentResults' = [currentResults EXCEPT ![p] =
                            Append(loaded[p].recs, NewEntry(Domain(p), status[p]))]
                    /\ CallSave(p, "w_saved")
                    /\ UNCHANGED <<idx, status, retryCount, probes>>
               ELSE /\ currentResults' = [currentResults EXCEPT ![p] = loaded[p].recs]
                    /\ NextDomain(p)
                    /\ UNCHANGED <<retries, after, waited, before>>

\* Lines 360-365 and 383-384: the save settled (its result is not looked
\* at); the domain joins the local set, next iteration.
W_Saved(p) ==
    /\ pc[p] = "w_saved"
    /\ CanRun(p)
    /\ UNCHANGED <<fsVars, retries, after, waited, before, loaded, runVars, batch, currentResults, stagehand, histVars, domainData, faults, crashed, exitCode>>
    /\ saved' = [saved EXCEPT ![p] = FALSE]
    /\ checkedDomainsSet' = [checkedDomainsSet EXCEPT ![p] = @ \cup {Domain(p)}]
    /\ NextDomain(p)

\* Lines 372-388: in the domain's catch, the store was re-loaded; append
\* and save an error entry unless the domain is present. A second throw
\* of the map is swallowed by the inner catch.
W_ErrLoaded(p) ==
    /\ pc[p] = "w_errloaded"
    /\ CanRun(p)
    /\ UNCHANGED <<fsVars, saved, runVars, batch, stagehand, histVars, domainData, faults, crashed, exitCode>>
    /\ loaded' = [loaded EXCEPT ![p] = EmptyVal]
    /\ IF loaded[p].bad
       THEN /\ Swallow(p)
            /\ UNCHANGED <<currentResults, checkedDomainsSet, retries, after, waited, before>>
       ELSE /\ checkedDomainsSet' = [checkedDomainsSet EXCEPT ![p] = DomainsOf(loaded[p].recs)]
            /\ IF ShouldAppend(DomainsOf(loaded[p].recs), Domain(p))
               THEN /\ currentResults' = [currentResults EXCEPT ![p] =
                            Append(loaded[p].recs, Entry(Domain(p), "error"))]
                    /\ CallSave(p, "w_saved")
                    /\ UNCHANGED <<idx, status, retryCount, probes>>
               ELSE /\ currentResults' = [currentResults EXCEPT ![p] = loaded[p].recs]
                    /\ NextDomain(p)
                    /\ UNCHANGED <<retries, after, waited, before>>

\* Lines 395-402: stagehand.close() settles; a failure is logged and the
\* function returns all the same.
W_Close(p) ==
    /\ pc[p] = "w_close"
    /\ CanRun(p)
    /\ UNCHANGED <<fsVars, callVars, runVars, workerVars, invoked, caught, workerError, budget, store0, domainData, crashed, exitCode>>
    /\ pc' = [pc EXCEPT ![p] = "w_done"]
    /\ cur' = None
    /\ \/ /\ CanFail
          /\ faults' = faults - 1
          /\ session' = [session EXCEPT ![p] = "close_failed"]
       \/ /\ session' = [session EXCEPT ![p] = "closed"]
          /\ UNCHANGED faults

\* ------------------------------------------------------------------ crash
\* The process is killed: its memory is gone, the files stay as they are.
Crash ==
    /\ ~crashed
    /\ pc[0] # "done"
    /\ crashed' = TRUE
    /\ pc' = [p \in Procs |-> "crashed"]
    /\ cur' = None
    /\ retries' = [p \in Procs |-> 0]
    /\ after' = [p \in Procs |-> "none"]
    /\ loaded' = [p \in Procs |-> EmptyVal]
    /\ saved' = [p \in Procs |-> FALSE]
    /\ waited' = [p \in Procs |-> <<>>]
    /\ before' = [p \in Procs |-> Absent]
    /\ uniqueDomains' = <<>>
    /\ existingResults' = <<>>
    /\ validResults' = <<>>
    /\ domainsToCheck' = <<>>
    /\ batch' = [p \in Workers |-> <<>>]
    /\ idx' = [p \in Workers |-> 1]
    /\ currentResults' = [p \in Workers |-> <<>>]
    /\ checkedDomainsSet' = [p \in Workers |-> {}]
    /\ status' = [p \in Workers |-> "none"]
    /\ stagehand' = [p \in Workers |-> FALSE]
    /\ retryCount' = [p \in Workers |-> 0]
    /\ probes' = [p \in Workers |-> <<>>]
    /\ faults' = 0
    /\ UNCHANGED <<fsVars, histVars, domainData, exitCode>>

\* ---------------------------------------------------------- specification
\* The steps of the program.
Program ==
    \/ Run_Start
    \/ Run_Loaded
    \/ Run_Plan
    \/ Run_Join
    \/ \E p \in Procs : LoadAttempt(p)
    \/ \E p \in Procs : LoadQuarantine(p)
    \/ \E p \in Procs : LoadOpen(p)
    \/ \E p \in Procs : LoadWrite(p)
    \/ \E p \in Procs : SaveBackup(p)
    \/ \E p \in Procs : SaveOpen(p)
    \/ \E p \in Procs : SaveWrite(p)
    \/ \E p \in Procs : SaveRename(p)
    \/ \E p \in Workers : W_Create(p)
    \/ \E p \in Workers : W_Init(p)
    \/ \E p \in Workers : W_Baseline(p)
    \/ \E p \in Workers : W_Loop(p)
    \/ \E p \in Workers : W_Check(p)
    \/ \E p \in Workers : W_Fallback(p)
    \/ \E p \in Workers : W_Reloaded(p)
    \/ \E p \in Workers : W_Saved(p)
    \/ \E p \in Workers : W_ErrLoaded(p)
    \/ \E p \in Workers : W_Close(p)

Next ==
    \/ Program
    \/ Crash

Spec == Init /\ [][Next]_vars

\* ------------------------------------------------------------- termination
\* The program under failures without end: the process is not killed,
\* every call that can fail may fail again and again (the environment
\* restores the failure it has spent), and the event loop runs every
\* continuation that is ready.
MaxInputLive == 2
MaxFaultsLive == 1

Refill ==
    /\ ~crashed
    /\ faults < budget
    /\ faults' = budget
    /\ UNCHANGED <<fsVars, pc, cur, callVars, runVars, workerVars, histVars, crashed, exitCode, domainData>>

\* One worker over every store, two workers over an empty store.
InitLive ==
    \/ InitWith({[k |-> "lines", lines |-> Prefix(1)]}, InitialStores, MaxFaultsLive)
    \/ InitWith({[k |-> "lines", lines |-> Prefix(MaxInputLive)]}, {Stringify(<<>>)}, MaxFaultsLive)

NextLive ==
    \/ Program
    \/ Refill

SpecLive == InitLive /\ [][NextLive]_vars /\ WF_vars(Program)

\* ------------------------------------------- the orchestrator's planning
\* run() alone, from the reading of the input to the launch of the workers
\* (lines 434-502), over longer and over irregular inputs, with no failure.
Reverse(q) == [i \in 1..Len(q) |-> q[Len(q) + 1 - i]]

\* Lines as a user may type them: either letter case, padded or not, blank.
PlanLines == {Line(t, w) : t \in {"a.com", "A.COM", "b.com", ""}, w \in BOOLEAN}

RECURSIVE SeqsUpTo(_, _)
SeqsUpTo(S, n) ==
    IF n = 0 THEN {<<>>}
    ELSE LET shorter == SeqsUpTo(S, n - 1)
         IN  shorter \cup {Append(q, x) : q \in shorter, x \in S}

PlanInputs ==
    {[k |-> "lines", lines |-> Prefix(m)] : m \in 0..MaxPlanInput}
    \cup {[k |-> "lines", lines |-> Reverse(Prefix(m))] : m \in 0..MaxPlanInput}
    \cup {[k |-> "lines", lines |-> q] : q \in SeqsUpTo(PlanLines, MaxPlanLines)}

InitPlan ==
    InitWith(PlanInputs, {Stringify(<<>>), Stringify(StoreOf("unavailable", "none"))}, 0)

NextPlan ==
    \/ Run_Start
    \/ \E p \in {0} : LoadAttempt(p)
    \/ Run_Loaded
    \/ Run_Plan

SpecPlan == InitPlan /\ [][NextPlan]_vars

\* ------------------------------------------- the single-session variant
\* src/scrape/scraper.ts, lines 453-765: run() opens one session, loads
\* the store into domainData, and calls checkDomainAvailability for every
\* domain of the input, which appends to domainData and rewrites the store
\* with writeFileSync. run() is process 0; its session is kept in
\* session[1] and stagehand[1], its loop position in idx[1], its domains
\* in uniqueDomains.
MaxSingleInput == 2
MaxFaultsSingle == 2
MaxSingleRecords == 3

singleFrame ==
    <<domainsFile, tmp, backup, quarantine, cur, callVars, existingResults, validResults,
      domainsToCheck, batch, currentResults, checkedDomainsSet, retryCount, probes,
      invoked, caught, workerError, budget, store0, crashed>>

InitSingle ==
    InitWith(InputFiles(MaxSingleInput), InitialStores \ {NullArray}, MaxFaultsSingle)

\* Lines 713-722: the store is read when it exists and is not empty; text
\* that does not parse gives the empty list.
LoadDomainData(doc) ==
    IF doc.k \in {"absent", "empty"} \/ ParseThrows(doc) THEN <<>> ELSE Parse(doc).recs

\* The target after a writeFileSync that threw: untouched or truncated.
FailedWrite(doc) == {doc, EmptyText}

\* Line 697: initBrowserbaseAndStagehand settles; its rejection goes
\* to run()'s catch, and the finally finds stagehand null.
Single_Init ==
    /\ pc[0] = "start"
    /\ ~crashed
    /\ UNCHANGED <<singleFrame, file, uniqueDomains, idx, status, domainData>>
    /\ \/ /\ CanFail
          /\ faults' = faults - 1
          /\ pc' = [pc EXCEPT ![0] = "done"]
          /\ exitCode' = ExitStatus(FALSE)
          /\ UNCHANGED <<stagehand, session>>
       \/ /\ stagehand' = [stagehand EXCEPT ![1] = TRUE]
          /\ session' = [session EXCEPT ![1] = "live"]
          /\ pc' = [pc EXCEPT ![0] = "s_load"]
          /\ UNCHANGED <<faults, exitCode>>

\* Lines 699-738: load domainData, read and de-duplicate the input. A
\* missing input throws into run()'s catch, an empty one returns; both
\* reach the finally.
Single_Load ==
    /\ pc[0] = "s_load"
    /\ ~crashed
    /\ UNCHANGED <<singleFrame, file, status, stagehand, session, faults, exitCode>>
    /\ domainData' = LoadDomainData(file)
    /\ idx' = [idx EXCEPT ![1] = 1]
    /\ IF domainsFile.k = "absent"
       THEN /\ uniqueDomains' = <<>>
            /\ pc' = [pc EXCEPT ![0] = "s_close"]
       ELSE /\ uniqueDomains' = UniqueDomains(domainsFile.lines)
            /\ pc' = [pc EXCEPT ![0] = IF uniqueDomains' = <<>> THEN "s_close" ELSE "s_loop"]

\* Lines 746-748: for (const domain of domains), every domain of the
\* input, whether domainData holds it or not.
Single_Loop ==
    /\ pc[0] = "s_loop"
    /\ ~crashed
    /\ UNCHANGED <<singleFrame, file, uniqueDomains, idx, status, stagehand, session, faults, exitCode, domainData>>
    /\ pc' = [pc EXCEPT ![0] = IF idx[1] > Len(uniqueDomains) THEN "s_close" ELSE "s_check"]

\* Lines 668-672: checkDomainAvailabilityName returns a status (after
\* failed probes that of the fallback or error); the entry is pushed.
Single_Check ==
    /\ pc[0] = "s_check"
    /\ ~crashed
    /\ UNCHANGED <<singleFrame, file, uniqueDomains, idx, stagehand, session, exitCode>>
    /\ \E s \in {"available", "unavailable", "unknown", "error"} :
          /\ \/ s = PageSays(uniqueDomains[idx[1]]) /\ UNCHANGED faults
             \/ /\ CanFail
                /\ faults' = faults - 1
                /\ s \in {"unknown", ExhaustedStatus(uniqueDomains[idx[1]])}
          /\ status' = [status EXCEPT ![1] = s]
          /\ domainData' = Append(domainData, NewEntry(uniqueDomains[idx[1]], s))
    /\ pc' = [pc EXCEPT ![0] = "s_write"]

\* Line 676: fs.writeFileSync(outputFilePath, JSON.stringify(domainData));
\* when it throws, the catch pushes an error entry (lines 681-682).
Single_Write ==
    /\ pc[0] = "s_write"
    /\ ~crashed
    /\ UNCHANGED <<singleFrame, uniqueDomains, stagehand, session, exitCode>>
    /\ status' = [status EXCEPT ![1] = "none"]
    /\ \/ /\ file' = Stringify(domainData)
          /\ idx' = [idx EXCEPT ![1] = @ + 1]
          /\ pc' = [pc EXCEPT ![0] = "s_loop"]
          /\ UNCHANGED <<faults, domainData>>
       \/ /\ CanFail
          /\ faults' = faults - 1
          /\ file' \in FailedWrite(file)
          /\ domainData' = Append(domainData, Entry(uniqueDomains[idx[1]], "error"))
          /\ pc' = [pc EXCEPT ![0] = "s_catch_write"]
          /\ UNCHANGED idx

\* Line 685: the write in the catch; when it throws too, the error leaves
\* checkDomainAvailability and ends the loop in run()'s catch.
Single_CatchWrite ==
    /\ pc[0] = "s_catch_write"
    /\ ~crashed
    /\ UNCHANGED <<singleFrame, uniqueDomains, status, stagehand, session, exitCode, domainData>>
    /\ \/ /\ file' = Stringify(domainData)
          /\ idx' = [idx EXCEPT ![1] = @ + 1]
          /\ pc' = [pc EXCEPT ![0] = "s_loop"]
          /\ UNCHANGED faults
       \/ /\ CanFail
          /\ faults' = faults - 1
          /\ file' \in FailedWrite(file)
          /\ pc' = [pc EXCEPT ![0] = "s_close"]
          /\ UNCHANGED idx

\* Lines 755-760: the finally closes the session; a rejection of close()
\* is logged by run().catch(console.error).
Single_Close ==
    /\ pc[0] = "s_close"
    /\ ~crashed
    /\ UNCHANGED <<singleFrame, file, uniqueDomains, idx, status, domainData>>
    /\ stagehand' = [stagehand EXCEPT ![1] = FALSE]
    /\ pc' = [pc EXCEPT ![0] = "done"]
    /\ exitCode' = ExitStatus(FALSE)
    /\ \/ /\ CanFail
          /\ faults' = faults - 1
          /\ session' = [session EXCEPT ![1] = "close_failed"]
       \/ /\ session' = [session EXCEPT ![1] = "closed"]
          /\ UNCHANGED faults

\* The program is started again over the store the last run left.
Single_Again ==
    /\ pc[0] = "done"
    /\ ~crashed
    /\ Len(file.recs) < MaxSingleRecords
    /\ UNCHANGED <<singleFrame, file, stagehand, status, faults>>
    /\ pc' = [pc EXCEPT ![0] = "start"]
    /\ exitCode' = None
    /\ session' = [session EXCEPT ![1] = "none"]
    /\ uniqueDomains' = <<>>
    /\ idx' = [idx EXCEPT ![1] = 1]
    /\ domainData' = <<>>

NextSingle ==
    \/ Single_Init
    \/ Single_Load
    \/ Single_Loop
    \/ Single_Check
    \/ Single_Write
    \/ Single_CatchWrite
    \/ Single_Close
    \/ Single_Again

SpecSingle == InitSingle /\ [][NextSingle]_vars

\* ================================================================ claims
RunDone == pc[0] = "done"

\* No failure was injected so far in this run.
NoFailureYet == faults = budget

\* At most one call failed so far in this run.
AtMostOneFailure == budget - faults <= 1

RecordsFor(doc, d) == {j \in 1..Len(doc.recs) : doc.recs[j].domain = d}

Has(doc, d) == doc.k = "json" /\ RecordsFor(doc, d) # {}

HasEntry(doc, e) == doc.k = "json" /\ \E j \in 1..Len(doc.recs) : doc.recs[j] = e

\* C1: after run() has completed with all workers finished, the store holds
\* exactly one record for every domain of the de-duplicated input (stated
\* for runs in which at most one I/O or remote call failed, so that every
\* load, save and checker call succeeded within its retries, in which no
\* worker caught an error, and whose store was absent or a list of
\* records at the start).
C1_OneRecordPerDomain ==
    (/\ RunDone
     /\ AtMostOneFailure
     /\ \A p \in Workers : ~workerError[p] /\ caught[p] = {}
     /\ store0.k \in {"absent", "json"})
        => \A i \in 1..Len(uniqueDomains) :
              /\ file.k = "json"
              /\ Cardinality(RecordsFor(file, uniqueDomains[i])) = 1

\* C2: starting from a store with unique domains, no two records of the
\* persisted store ever share a domain.
C2_DomainsUnique ==
    \A i, j \in 1..Len(file.recs) :
        file.recs[i].domain = file.recs[j].domain => i = j

\* Three workers and the orchestrator's filter save have all written the
\* store: four records, the error record of the old store replaced.
C2_Witness ==
    /\ RunDone
    /\ store0 = Stringify(StoreOf("none", "error"))
    /\ Len(file.recs) = 4
    /\ \A p \in Workers : invoked[p] # <<>>

\* C3: at every point of a run that started with the target absent or
\* complete, the target is absent or a complete document, and the only
\* step that changes the target is the rename at the end of a save.
C3_TargetAbsentOrComplete ==
    /\ [](store0.k \in {"absent", "json"} => file.k \in {"absent", "json"})
    /\ [][file' # file => \E p \in Procs : pc[p] = "save_rename"]_vars

\* C4: every record with a non-error status that is in the store at the
\* start of a run is in the store, with the same status, in every later
\* state of the run.
C4_NonErrorRecordsKept ==
    store0.k = "json" =>
        \A i \in 1..Len(store0.recs) :
            store0.recs[i].status # "error" => HasEntry(file, store0.recs[i])

\* C5: once a worker has invoked the checker for the next domain of its
\* partition, the store file holds a record for every domain the worker
\* checked before, in every later state of the run (stated for runs in
\* which at most one call failed, so that every save succeeded within its
\* retries, and for a worker that caught no error).
C5_PersistedBeforeNext ==
    AtMostOneFailure =>
        \A p \in Workers :
            caught[p] = {} =>
                \A i \in 1..(Len(invoked[p]) - 1) : Has(file, invoked[p][i])

SeqRange(q) == {q[i] : i \in 1..Len(q)}

ErrorDomains(recs) == {recs[i].domain : i \in {j \in 1..Len(recs) : recs[j].status = "error"}}

Planned == pc[0] \in {"join", "done"}

Covered ==
    /\ uniqueDomains # <<>>
    /\ \A i \in 1..Len(uniqueDomains) :
          \E j \in 1..Len(existingResults) :
              /\ existingResults[j].domain = uniqueDomains[i]
              /\ existingResults[j].status # "error"

C8_DiscardWhenPresent ==
    [][\A p \in Workers :
          (/\ pc[p] = "w_reloaded"
           /\ pc'[p] \notin {"w_reloaded", "crashed"}
           /\ ~loaded[p].bad
           /\ Domain(p) \in DomainsOf(loaded[p].recs))
            => /\ pc'[p] = "w_loop"
               /\ idx'[p] = idx[p] + 1
               /\ file' = file
               /\ tmp' = tmp
               /\ backup' = backup]_vars

\* A worker checked a.com, found the old record on re-loading and moved
\* on: the store is the one the run started with.
C8_Witness ==
    \E p \in Workers :
        /\ invoked[p] = <<"a.com">>
        /\ pc[p] = "w_loop"
        /\ idx[p] = 2
        /\ file = store0
        /\ HasEntry(file, Entry("a.com", "unavailable"))

\* C9: when processing a domain raises, the worker re-loads the store and,
\* if the domain is absent, saves the store with an error record appended;
\* a failure of that attempt is swallowed; in every case the loop goes on,
\* so a worker in which a domain raised still visits its whole partition.
C9_DomainErrorContained ==
    /\ [](\A p \in Workers :
            (pc[p] \in {"w_close", "w_done"} /\ caught[p] # {})
                => idx[p] = Len(batch[p]) + 1)
    /\ [][\A p \in Workers :
            /\ (/\ pc[p] = "w_reloaded"
                /\ pc'[p] \notin {"w_reloaded", "crashed"}
                /\ loaded[p].bad)
                 => (pc'[p] = "load" /\ after'[p] = "w_errloaded" /\ idx'[p] = idx[p])
            /\ (/\ pc[p] = "w_errloaded"
                /\ pc'[p] \notin {"w_errloaded", "crashed"})
                 => IF ~loaded[p].bad /\ Domain(p) \notin DomainsOf(loaded[p].recs)
                    THEN /\ pc'[p] = "save"
                         /\ SaveData(p)' = Append(loaded[p].recs, Entry(Domain(p), "error"))
                         /\ idx'[p] = idx[p]
                    ELSE /\ pc'[p] = "w_loop"
                         /\ idx'[p] = idx[p] + 1
                         /\ file' = file]_vars

\* Processing a.com raised in worker 1, its error record was persisted and
\* the worker went on to check d.com.
C9_Witness ==
    /\ "a.com" \in caught[1]
    /\ invoked[1] = <<"a.com", "d.com">>
    /\ HasEntry(file, Entry("a.com", "error"))

\* C10: run() completes only when every worker has finished, and a worker
\* whose outer catch did not run has gone through its whole partition,
\* whatever happened to its siblings.
C10_WorkerFailureContained ==
    /\ RunDone => \A p \in Workers : pc[p] \in {"idle", "w_done"}
    /\ \A p \in Workers :
          (pc[p] = "w_done" /\ ~workerError[p]) => idx[p] = Len(batch[p]) + 1

\* Worker 2 failed to get its session; worker 1 checked both its domains
\* and run() completed.
C10_Witness ==
    /\ RunDone
    /\ workerError[2]
    /\ session[2] = "none"
    /\ invoked[1] = <<"a.com", "d.com">>

\* C11: when a worker has finished, no remote session it created is still
\* live without a teardown having been attempted: the session was closed,
\* or its close failed and the failure was logged.
C11_SessionTornDown ==
    \A p \in Workers :
        pc[p] = "w_done" => session[p] \in {"none", "closed", "close_failed"}

\* The positions of safelyReadResultsFile.
LoadPcs == {"load", "load_quarantine", "load_open", "load_write", "load_reset_open", "load_reset_write"}

\* p returns from safelyReadResultsFile in this step.
LoadReturns(p) == pc[p] \in LoadPcs /\ pc'[p] = after[p]

C13_LoadNeverRaises ==
    /\ [](\A p \in Procs :
            pc[p] \in LoadPcs
                => /\ retries[p] <= MaxRetries
                   /\ Len(waited[p]) = retries[p]
                   /\ (pc[p] # "load" => retries[p] < MaxRetries))
    /\ [][\A p \in Procs :
            /\ (pc[p] \in LoadPcs /\ pc'[p] \notin LoadPcs /\ pc'[p] # "crashed")
                 => (pc'[p] = after[p] /\ after[p] # "none")
            /\ (pc[p] = "load" /\ retries[p] = MaxRetries /\ pc'[p] \notin {"load", "crashed"})
                 => (LoadReturns(p) /\ loaded'[p] = EmptyVal /\ fsVars' = fsVars)]_vars

\* Three attempts of the orchestrator's load failed: it went on with the
\* empty sequence, the corrupt store untouched.
C13_Witness ==
    /\ pc[0] = "run_loaded"
    /\ store0 = Garbage
    /\ file = Garbage
    /\ faults = budget - MaxRetries
    /\ loaded[0] = EmptyVal

\* The positions of safelyWriteResultsFile.
SavePcs == {"save", "save_open", "save_write", "save_rename"}

\* p returns from safelyWriteResultsFile in this step.
SaveReturns(p) == pc[p] \in SavePcs /\ pc'[p] = after[p]

\* p takes a step of the call it is in.
Steps(p) == pc'[p] # pc[p] \/ retries'[p] # retries[p]

\* Attempts are bounded by 3 and the k-th failed attempt is followed by a
\* wait of 1000 * k ms; every step that leaves the function returns to the
\* caller; the result is true exactly when the rename was done.
SaveBoundedAndTruthful ==
    /\ [](\A p \in Procs :
            pc[p] \in SavePcs
                => /\ retries[p] <= MaxRetries
                   /\ waited[p] = [k \in 1..retries[p] |-> 1000 * k]
                   /\ (pc[p] # "save" => retries[p] < MaxRetries))
    /\ [][\A p \in Procs :
            /\ (pc[p] \in SavePcs /\ pc'[p] \notin SavePcs /\ pc'[p] # "crashed")
                 => (pc'[p] = after[p] /\ after[p] # "none")
            /\ SaveReturns(p)
                 => (saved'[p] <=> (pc[p] = "save_rename" /\ file' = tmp /\ tmp' = Absent))
            /\ (SaveReturns(p) /\ ~saved'[p]) => retries[p] = MaxRetries]_vars

\* C14 as stated: save never raises, makes at most 3 attempts, waits
\* 1000 ms times the attempt number after each failed attempt, returns true
\* exactly when an attempt completed the rename, and when it returns false
\* the target holds the content it had before save was called.
C14_FailedSaveTargetAsBefore ==
    /\ SaveBoundedAndTruthful
    /\ [][\A p \in Procs :
            (SaveReturns(p) /\ ~saved'[p]) => file' = before[p]]_vars

\* C14, amended: save never raises, makes at most 3 attempts, waits 1000 ms
\* times the attempt number after each failed attempt and returns true
\* exactly when an attempt completed the rename; no step of a save other
\* than a completed rename changes the target, so a save that returns
\* false has not changed it, and the orchestrator's save, which runs
\* alone, leaves the content the target had before the call.
C14_SaveNeverRaises ==
    /\ SaveBoundedAndTruthful
    /\ [][\A p \in Procs :
            /\ (pc[p] \in SavePcs /\ Steps(p) /\ file' # file)
                 => (SaveReturns(p) /\ saved'[p])
            /\ (SaveReturns(p) /\ ~saved'[p]) => file' = file]_vars
    /\ [][(SaveReturns(0) /\ ~saved'[0]) => file' = before[0]]_vars

\* The orchestrator's save of the filtered list failed three times: it
\* returned false and the store is the one the run started with.
C14_Witness ==
    /\ pc[0] = "run_plan"
    /\ existingResults = <<Entry("b.com", "error")>>
    /\ store0 = Stringify(existingResults)
    /\ file = store0
    /\ ~saved[0]
    /\ faults <= budget - MaxRetries

\* C15: when a save completes its rename over an existing target, the
\* .backup sibling holds exactly the content the target had immediately
\* before the rename, whoever else saved in between the attempts.
C15_BackupHoldsPreviousTarget ==
    [][\A p \in Procs :
          (SaveReturns(p) /\ saved'[p] /\ file.k # "absent")
              => (backup' = file /\ file' = Stringify(SaveData(p)))]_vars

\* A worker's save has replaced the one-record store another worker
\* wrote: the backup is that one-record store.
C15_Witness ==
    \E p \in Workers :
        /\ pc[p] = "w_saved"
        /\ saved[p]
        /\ store0 = Stringify(<<>>)
        /\ backup.k = "json"
        /\ Len(backup.recs) = 1
        /\ file.k = "json"
        /\ Len(file.recs) = 2
        /\ file.recs[1] = backup.recs[1]

\* The partitions handed to workers: those of the launched sessions.
Launched == {p \in Workers : pc[p] # "idle"}

\* C16: for n >= 1 unresolved domains exactly K = min(3, n) partitions are
\* produced; the domain at input index i (from 0) is in partition i mod K,
\* at position i div K, so that input order is kept inside each partition
\* and the partitions are a function of the input sequence alone.
C16_RoundRobin ==
    pc[0] = "join" =>
        LET n == Len(domainsToCheck)
            K == IF n < 3 THEN n ELSE 3
        IN  /\ n >= 1
            /\ Launched = 1..K
            /\ \A p \in Workers : p > K => batch[p] = <<>>
            /\ \A p \in 1..K :
                  Len(batch[p]) = Cardinality({i \in 0..(n - 1) : i % K = p - 1})
            /\ \A i \in 0..(n - 1) :
                  batch[(i % K) + 1][(i \div K) + 1] = domainsToCheck[i + 1]

\* Five domains in reverse alphabetical order over three sessions.
C16_Witness ==
    /\ pc[0] = "join"
    /\ domainsToCheck = <<"e.com", "d.com", "c.com", "b.com", "a.com">>
    /\ batch = <<<<"e.com", "b.com">>, <<"d.com", "a.com">>, <<"c.com">>>>

\* C17: the sizes of any two partitions differ by at most one, no
\* partition is empty, and 7 domains over 3 sessions give sizes 3, 2, 2.
C17_BalancedPartitions ==
    pc[0] = "join" =>
        /\ Launched # {}
        /\ \A p \in Launched : batch[p] # <<>>
        /\ \A p, q \in Launched : Len(batch[p]) - Len(batch[q]) <= 1
        /\ Len(domainsToCheck) = 7
              => (Len(batch[1]) = 3 /\ Len(batch[2]) = 2 /\ Len(batch[3]) = 2)

\* Seven unresolved domains were split.
C17_Witness ==
    /\ pc[0] = "join"
    /\ Len(domainsToCheck) = 7
    /\ Launched = {1, 2, 3}
    /\ Len(batch[1]) = 3
    /\ Len(batch[2]) = 2
    /\ Len(batch[3]) = 2

\* Element j of partition 1, 2, ..., K, then element j + 1, and so on.
RoundRobinOrder(b) ==
    LET K == Cardinality({p \in Workers : b[p] # <<>>})
        n == Len(b[1]) + Len(b[2]) + Len(b[3])
    IN  [i \in 1..n |-> b[((i - 1) % K) + 1][((i - 1) \div K) + 1]]

\* C18: once the workers are launched the partitions are pairwise
\* disjoint, every unresolved domain is in exactly one of them, reading
\* them in round-robin order gives back the unresolved sequence, and no
\* step of the run changes them.
C18_PartitionsStatic ==
    /\ []((pc[0] \in {"join", "done"} /\ domainsToCheck # <<>>) =>
            /\ \A p, q \in Workers :
                  p # q => SeqRange(batch[p]) \cap SeqRange(batch[q]) = {}
            /\ \A i \in 1..Len(domainsToCheck) :
                  Cardinality({<<p, j>> \in Workers \X (1..Len(domainsToCheck)) :
                                  j <= Len(batch[p]) /\ batch[p][j] = domainsToCheck[i]}) = 1
            /\ RoundRobinOrder(batch) = domainsToCheck)
    /\ [][(pc[0] = "join" /\ ~crashed')
            => (batch' = batch /\ domainsToCheck' = domainsToCheck)]_vars

\* Four domains over three sessions, the run over and every worker done:
\* the partitions are the ones made at the launch.
C18_Witness ==
    /\ RunDone
    /\ domainsToCheck = <<"a.com", "b.com", "c.com", "d.com">>
    /\ batch = <<<<"a.com", "d.com">>, <<"b.com">>, <<"c.com">>>>
    /\ \A p \in Workers : pc[p] = "w_done" /\ Len(invoked[p]) = Len(batch[p])

\* The lower-case form of a domain text.
ToLower(t) == IF t = "A.COM" THEN "a.com" ELSE t

\* C19: the de-duplicated list the orchestrator works from holds no blank
\* entry and no two entries that are equal after case normalization: lines
\* that differ only in letter case or surrounding whitespace yield a single
\* domain.
C19_DedupCaseNormalized ==
    pc[0] \notin {"start", "done"} =>
        /\ \A i \in 1..Len(uniqueDomains) : uniqueDomains[i] # ""
        /\ \A i, j \in 1..Len(uniqueDomains) :
              ToLower(uniqueDomains[i]) = ToLower(uniqueDomains[j]) => i = j

CheckPcs == {"w_check", "w_fallback"}

\* C21: check(domain) never raises to the worker: every step that leaves
\* the checker resumes the worker after the call with one of the four
\* statuses, the domain's catch and the worker's catch untouched, and when
\* the fallback fails after the failed primary probes the status is error.
C21_CheckNeverRaises ==
    [][\A p \in Workers :
          /\ (pc[p] \in CheckPcs /\ pc'[p] \notin CheckPcs /\ pc'[p] # "crashed")
                => /\ pc'[p] = "load"
                   /\ after'[p] = "w_reloaded"
                   /\ status'[p] \in {"available", "unavailable", "unknown", "error"}
                   /\ caught'[p] = caught[p]
                   /\ workerError'[p] = workerError[p]
                   /\ idx'[p] = idx[p]
          /\ (pc[p] = "w_fallback" /\ pc'[p] \notin {"w_fallback", "crashed"} /\ faults' < faults)
                => (retryCount[p] = 2 /\ status'[p] = "error")]_vars

\* Three primary probes and the fallback failed: the checker answered
\* error and the worker went on to re-load the store.
C21_Witness ==
    \E p \in Workers :
        /\ pc[p] = "load"
        /\ after[p] = "w_reloaded"
        /\ status[p] = "error"
        /\ faults = budget - 4
        /\ caught[p] = {}
        /\ ~workerError[p]

\* C22: inside one check(domain) call the probes started so far are the
\* primary attempts with retry counts 0, 1, 2 in this order, attempt n
\* preceded by a wait of 5000 ms times its retry count, then at most one
\* fallback, which starts only when the third primary attempt has failed;
\* nothing follows the fallback but the return.
C22_ProbesBoundedAndOrdered ==
    /\ [](\A p \in Workers :
            /\ pc[p] = "w_check"
                => /\ retryCount[p] \in 0..2
                   /\ probes[p] = [n \in 1..(retryCount[p] + 1) |->
                                      [kind |-> "primary", delay |-> 5000 * (n - 1)]]
            /\ pc[p] = "w_fallback"
                => /\ retryCount[p] = 2
                   /\ probes[p] = <<[kind |-> "primary", delay |-> 0],
                                    [kind |-> "primary", delay |-> 5000],
                                    [kind |-> "primary", delay |-> 10000],
                                    [kind |-> "fallback", delay |-> 0]>>)
    /\ [][\A p \in Workers :
            /\ (pc[p] = "w_fallback" /\ pc'[p] \notin {"w_fallback", "crashed"})
                 => (pc'[p] = "load" /\ after'[p] = "w_reloaded")
            /\ (pc[p] = "w_check" /\ pc'[p] = "w_fallback")
                 => (retryCount[p] = 2 /\ faults' < faults)]_vars

\* The third primary probe has failed and the fallback is under way.
C22_Witness ==
    \E p \in Workers :
        /\ pc[p] = "w_fallback"
        /\ Len(probes[p]) = 4
        /\ probes[p][3].delay = 10000
        /\ faults = budget - 3

\* C23: when the input file is missing, the process ends with a non-zero
\* exit status.
C23_MissingInputExitsNonZero ==
    (RunDone /\ domainsFile.k = "absent") => exitCode # 0

\* C24: run() completes, with exit status 0, only when every launched
\* worker has finished, also when a domain ended with status error; the
\* step that ends the wait changes no file, and nothing changes a file
\* once run() has completed.
C24_CompletesAfterWorkers ==
    /\ [](RunDone => (exitCode = 0 /\ \A p \in Workers : pc[p] \in {"idle", "w_done"}))
    /\ [](exitCode # None => RunDone)
    /\ [][(pc[0] = "join" /\ pc'[0] = "done") => fsVars' = fsVars]_vars
    /\ [][RunDone => fsVars' = fsVars]_vars

\* The checker answered error for a.com, the record was persisted, the
\* worker finished and run() completed with status 0.
C24_Witness ==
    /\ RunDone
    /\ exitCode = 0
    /\ store0 = Stringify(<<>>)
    /\ invoked[1] = <<"a.com">>
    /\ caught[1] = {}
    /\ pc[1] = "w_done"
    /\ file = Stringify(<<Entry("a.com", "error")>>)

\* p takes the skip-or-check decision for the domain at idx[p].
Decides(p) ==
    /\ pc[p] = "w_loop"
    /\ idx[p] <= Len(batch[p])
    /\ (pc'[p] = "w_check" \/ idx'[p] = idx[p] + 1)

\* C25 as stated: the worker re-loads the store before each decision: when
\* it has finished a domain and another domain of its partition is left,
\* its next position is the load of the store.
C25_ReloadBeforeDecision ==
    [][\A p \in Workers :
          (idx'[p] = idx[p] + 1 /\ idx'[p] <= Len(batch[p]))
              => pc'[p] \in LoadPcs]_vars

\* C25, amended: the skip decision is taken against the worker's local
\* set: a domain in the set is skipped without a checker call, any other
\* domain is handed to the checker; the set is only assigned from the
\* load before the first domain and the re-load after a checker call, and
\* extended by the worker's own domain after its save, never re-read at
\* the decision; in a run without failures it equals the set of domains
\* in the store file at the moment of the decision.
C25_SkipAgainstLocalSet ==
    /\ [][\A p \in Workers :
             Decides(p) =>
                 /\ (invoked'[p] = invoked[p]) <=> (Domain(p) \in checkedDomainsSet[p])
                 /\ invoked'[p] # invoked[p] => invoked'[p] = Append(invoked[p], Domain(p))]_vars
    /\ [][\A p \in Workers :
             checkedDomainsSet'[p] # checkedDomainsSet[p] =>
                 \/ checkedDomainsSet'[p] = {}
                 \/ /\ pc[p] \in {"w_baseline", "w_reloaded", "w_errloaded"}
                    /\ checkedDomainsSet'[p] = DomainsOf(loaded[p].recs)
                 \/ /\ pc[p] = "w_saved"
                    /\ checkedDomainsSet'[p] = checkedDomainsSet[p] \cup {Domain(p)}]_vars
    /\ [][\A p \in Workers :
             (NoFailureYet /\ Decides(p) /\ file.k = "json")
                 => checkedDomainsSet[p] = DomainsOf(file.recs)]_vars

\* The save of the filtered view failed, the error record of a.com is
\* still in the store and in the worker's first snapshot: the worker has
\* skipped a.com without a checker call.
C25_Witness ==
    /\ store0 = Stringify(<<Entry("a.com", "error")>>)
    /\ file = store0
    /\ batch[1] = <<"a.com">>
    /\ pc[1] = "w_loop"
    /\ idx[1] = 2
    /\ invoked[1] = <<>>

RECURSIVE IsSubSeq(_, _)
\* s is a subsequence of t, in t's order.
IsSubSeq(s, t) ==
    IF s = <<>> THEN TRUE
    ELSE IF t = <<>> THEN FALSE
    ELSE IF Head(s) = Head(t) THEN IsSubSeq(Tail(s), Tail(t))
    ELSE IsSubSeq(s, Tail(t))

\* The worker is between the return of the checker and the end of the
\* domain's load/append/save.
Persisting(p) ==
    \/ pc[p] \in {"w_reloaded", "w_saved", "w_errloaded"}
    \/ pc[p] \in LoadPcs \cup SavePcs /\ after[p] \in {"w_reloaded", "w_saved", "w_errloaded"}

\* C26: a worker has at most one checker call in flight, invokes the
\* checker for its domains in the partition's order, and finishes the
\* load/append/save of one domain before it starts the next: the domains
\* it invoked the checker for are a subsequence of its partition; while a
\* call is in flight or its result is being persisted, the last invoked
\* domain is the one the worker stands at; a new call starts only at the
\* loop head, for the domain the worker stands at, which lies behind
\* every domain invoked before.
C26_WorkerSequential ==
    /\ [](\A p \in Workers :
            (~crashed /\ pc[p] # "idle") =>
                /\ IsSubSeq(invoked[p], batch[p])
                /\ (pc[p] \in CheckPcs \/ Persisting(p))
                      => /\ idx[p] <= Len(batch[p])
                         /\ invoked[p] # <<>>
                         /\ invoked[p][Len(invoked[p])] = batch[p][idx[p]]
                         /\ IsSubSeq(invoked[p], SubSeq(batch[p], 1, idx[p])))
    /\ [][\A p \in Workers :
             invoked'[p] # invoked[p] =>
                 /\ pc[p] = "w_loop" /\ pc'[p] = "w_check"
                 /\ invoked'[p] = Append(invoked[p], batch[p][idx[p]])
                 /\ IsSubSeq(invoked[p], SubSeq(batch[p], 1, idx[p] - 1))]_vars
    /\ [][\A p \in Workers :
             (idx'[p] # idx[p] /\ ~crashed') =>
                 \/ idx'[p] = 1 /\ pc[p] = "w_baseline"
                 \/ idx'[p] = idx[p] + 1 /\ pc[p] \in {"w_loop", "w_reloaded", "w_saved", "w_errloaded"}]_vars

\* Worker 1 of a run over four domains has finished a.com and is checking
\* d.com, the second domain of its partition.
C26_Witness ==
    /\ batch[1] = <<"a.com", "d.com">>
    /\ invoked[1] = <<"a.com", "d.com">>
    /\ pc[1] = "w_check"
    /\ Has(file, "a.com")

\* The workers whose remote session exists and was not closed.
LiveSessions == {p \in Workers : session[p] \in {"live", "close_failed"}}

\* C27: at every moment at most 3 remote sessions are live and at most as
\* many as there are unresolved domains; sessions belong to launched
\* workers only; a worker creates at most one session, at its start; and
\* every checker call of a worker runs on that worker's own live session.
C27_SessionsBounded ==
    /\ [](Cardinality(LiveSessions) <= MaxSessions)
    /\ [](~crashed =>
            /\ Cardinality({p \in Workers : session[p] # "none"}) <= Len(domainsToCheck)
            /\ \A p \in Workers :
                  /\ session[p] # "none" => pc[p] # "idle"
                  /\ pc[p] \in CheckPcs => session[p] = "live" /\ stagehand[p])
    /\ [][\A p \in Workers :
             (session'[p] = "live" /\ session[p] # "live")
                 => session[p] = "none" /\ pc[p] = "w_create"]_vars

\* Three domains, three workers, each checking on its own live session.
C27_Witness ==
    /\ Len(domainsToCheck) = 3
    /\ LiveSessions = Workers
    /\ \A p \in Workers : pc[p] = "w_check"

\* C28: during the worker phase the set of domains in the persisted store
\* only grows: the rename that completes a worker's save never removes a
\* domain that is in the store file at that moment (stated for runs in
\* which at most one call failed, so that no load came back empty after
\* exhausting its retries).
C28_WorkerSaveKeepsDomains ==
    [][\A p \in Workers :
          (/\ AtMostOneFailure
           /\ pc[p] = "save_rename"
           /\ SaveReturns(p)
           /\ saved'[p]
           /\ file.k = "json")
              => /\ file'.k = "json"
                 /\ DomainsOf(file.recs) \subseteq DomainsOf(file'.recs)]_vars

\* C29: when the store holds the record {a.com, error} at the start of a
\* run over a.com and run() loaded it, the checker is invoked for a.com
\* and, at the end of the run, the store's only record for a.com carries a
\* status the checker returned for it instead of the old error, also when
\* the save of the filtered view returned false (stated for a run over
\* the single domain a.com in which at most three calls failed, as many
\* as make one save return false and fewer than make the checker answer
\* error, and whose worker met no error).
C29_ErrorDomainRechecked ==
    (/\ RunDone
     /\ budget - faults <= MaxRetries
     /\ store0 = Stringify(<<Entry("a.com", "error")>>)
     /\ uniqueDomains = <<"a.com">>
     /\ "a.com" \in ErrorDomains(existingResults)
     /\ pc[1] = "w_done" /\ ~workerError[1] /\ caught[1] = {}
     /\ session[1] = "closed")
        => /\ invoked[1] = <<"a.com">>
           /\ file.k = "json"
           /\ Cardinality(RecordsFor(file, "a.com")) = 1
           /\ \A j \in RecordsFor(file, "a.com") :
                 file.recs[j].status \in FallbackFinds("a.com")

\* C30: within one run the checker is invoked at most once per domain
\* across all workers: no domain occurs twice in the workers' sequences of
\* checker invocations.
C30_CheckedAtMostOnce ==
    \A p, q \in Workers :
        \A i \in 1..Len(invoked[p]) :
            \A j \in 1..Len(invoked[q]) :
                invoked[p][i] = invoked[q][j] => (p = q /\ i = j)

\* A run over four domains has completed and the three workers together
\* invoked the checker for each of the four domains.
C30_Witness ==
    /\ RunDone
    /\ invoked = <<<<"a.com", "d.com">>, <<"b.com">>, <<"c.com">>>>

\* The session acquisition of worker p failed: the worker ended without
\* ever closing a session.
AcquisitionFailed(p) == pc[p] = "w_done" /\ session[p] \in {"none", "live"}

\* C31: a worker whose session acquisition fails ends at once, without
\* touching any file; it has invoked the checker for no domain, takes no
\* further step, and every record the store holds for a domain of its
\* partition is a record the store held at the start of the run.
C31_FailedAcquisitionLeavesStore ==
    /\ [][\A p \in Workers :
             (pc[p] \in {"w_create", "w_init"} /\ pc'[p] \notin {pc[p], "w_init", "crashed"} /\ faults' < faults)
                 => /\ pc'[p] = "w_done"
                    /\ fsVars' = fsVars
                    /\ invoked'[p] = <<>>]_vars
    /\ [][\A p \in Workers :
             AcquisitionFailed(p) =>
                 /\ pc'[p] \in {"w_done", "crashed"}
                 /\ invoked'[p] = invoked[p]]_vars
    /\ [](\A p \in Workers :
            AcquisitionFailed(p) =>
                /\ workerError[p]
                /\ invoked[p] = <<>>
                /\ file.k = "json" =>
                      \A i \in 1..Len(batch[p]) :
                          \A j \in RecordsFor(file, batch[p][i]) :
                              HasEntry(store0, file.recs[j]))

\* Worker 1's acquisition failed; worker 2 has saved its domain and the
\* run has completed without a record for a.com.
C31_Witness ==
    /\ RunDone
    /\ batch = <<<<"a.com">>, <<"b.com">>, <<>>>>
    /\ AcquisitionFailed(1)
    /\ invoked = <<<<>>, <<"b.com">>, <<>>>>
    /\ file = Stringify(<<Entry("b.com", "unavailable")>>)

\* C32: all processes write the one temporary file; whenever a process
\* stands at the rename of a save, the temporary file holds the text of
\* the record sequence passed to that save, and the rename that completes
\* the save installs exactly that text at the target.
C32_RenameInstallsOwnData ==
    /\ [](\A p \in Procs : pc[p] = "save_rename" => tmp = Stringify(SaveData(p)))
    /\ [][\A p \in Procs :
             (pc[p] = "save_rename" /\ SaveReturns(p) /\ saved'[p])
                 => /\ file' = Stringify(SaveData(p))
                    /\ tmp' = Absent]_vars

\* Two save calls overlap: worker 1 waits after a failed attempt of its
\* save of [a.com] while worker 2's save has installed [b.com].
C32_Witness ==
    /\ pc[1] = "save"
    /\ retries[1] = 1
    /\ currentResults[1] = <<Entry("a.com", "available")>>
    /\ pc[2] = "w_saved"
    /\ file = Stringify(<<Entry("b.com", "unavailable")>>)

\* C33: in the single-session variant, whenever a run has ended over a
\* store that a previous run left, no two records of the store share a
\* domain (stated for runs in which no call failed).
C33_SingleSessionDomainsUnique ==
    (pc[0] = "done" /\ NoFailureYet /\ file.k = "json") =>
        \A d \in SeqRange(AllNames) : Cardinality(RecordsFor(file, d)) <= 1

\* C34: when the process is not killed and every remote call and every
\* file call returns or fails, whatever the pattern of failures, every
\* launched worker eventually finishes and run() eventually terminates;
\* until then no load or save is past its third attempt and no checker
\* call past its third primary probe.
C34_Terminates ==
    /\ <>(RunDone /\ \A p \in Workers : pc[p] \in {"idle", "w_done"})
    /\ \A p \in Workers : (pc[p] # "idle") ~> (pc[p] = "w_done")
    /\ [](\A p \in Procs : retries[p] <= MaxRetries)
    /\ [](\A p \in Workers : retryCount[p] <= 2)

\* A run has terminated although the checker's three primary probes and
\* its fallback failed and a save of the error record was retried: the
\* worker recorded a.com as error.
C34_Witness ==
    /\ RunDone
    /\ store0 = Stringify(<<>>)
    /\ invoked[1] = <<"a.com">>
    /\ pc[1] = "w_done"
    /\ file = Stringify(<<Entry("a.com", "error")>>)
    /\ backup = Stringify(<<>>)

====
